---- MODULE Spec2Model ----
(***************************************************************************)
(* Model of code/convert_CAUEEG_to_BIDS.py: the label derivation           *)
(* (determine_dementia_type, determine_dementia_label, normality_label),   *)
(* the event segmentation (parse_events) and the conversion run            *)
(* (convert_caueeg_to_bids).                                               *)
(*                                                                         *)
(* Text is modelled as a sequence of one-character strings, so that        *)
(* lower(), startswith(), endswith() and the substring test are computed.  *)
(* A time in seconds is the exact quotient <<numerator, denominator>>.     *)
(***************************************************************************)
EXTENDS Integers, Sequences, FiniteSets, TLC

VARIABLES
    row, labels,                      \* label derivation of one table row
    events, sfreq, result,            \* one call of parse_events
    pc, participants_tsv,             \* the conversion run
    dementia_split, dementia_split_no_overlap,
    abnormal_split, abnormal_split_no_overlap,
    idx, errors, rawdata, tsv_written, summary

vars == <<row, labels, events, sfreq, result, pc, participants_tsv,
          dementia_split, dementia_split_no_overlap,
          abnormal_split, abnormal_split_no_overlap,
          idx, errors, rawdata, tsv_written, summary>>

labelVars == <<row, labels>>
eventVars == <<events, sfreq, result>>
runVars == <<pc, participants_tsv, dementia_split, dementia_split_no_overlap,
             abnormal_split, abnormal_split_no_overlap,
             idx, errors, rawdata, tsv_written, summary>>

-----------------------------------------------------------------------------
(* Bounds of the model *)

MaxLen == 3
MaxOnset == 2
MaxMarkerLen == 1
MaxEntries == 1

-----------------------------------------------------------------------------
(* Text *)

UpperCase == <<"A", "B", "C", "D", "E", "F", "G", "H", "I", "J", "K", "L", "M",
               "N", "O", "P", "Q", "R", "S", "T", "U", "V", "W", "X", "Y", "Z">>
LowerCase == <<"a", "b", "c", "d", "e", "f", "g", "h", "i", "j", "k", "l", "m",
               "n", "o", "p", "q", "r", "s", "t", "u", "v", "w", "x", "y", "z">>

LowerChar(c) ==
    IF \E k \in 1..26 : UpperCase[k] = c
    THEN LowerCase[CHOOSE k \in 1..26 : UpperCase[k] = c]
    ELSE c

\* str.lower()
Lower(s) == [k \in 1..Len(s) |-> LowerChar(s[k])]

\* str.startswith(p)
StartsWith(s, p) == Len(p) <= Len(s) /\ SubSeq(s, 1, Len(p)) = p

\* str.endswith(p)
EndsWith(s, p) == Len(p) <= Len(s) /\ SubSeq(s, Len(s) - Len(p) + 1, Len(s)) = p

\* p in s
Contains(s, p) ==
    \E k \in 1..(Len(s) - Len(p) + 1) : SubSeq(s, k, k + Len(p) - 1) = p

EyesOpen == <<"E", "y", "e", "s", " ", "O", "p", "e", "n">>
EyesClosed == <<"E", "y", "e", "s", " ", "C", "l", "o", "s", "e", "d">>
Paused == <<"P", "a", "u", "s", "e", "d">>
PhoticOn == <<"P", "h", "o", "t", "i", "c", " ", "O", "n">>
PhoticOff == <<"P", "h", "o", "t", "i", "c", " ", "O", "f", "f">>
HV == <<"H", "V">>
On == <<"O", "n">>
HVOff == <<"H", "V", " ", "-", " ", "O", "f", "f">>
drowsy == <<"d", "r", "o", "w", "s", "y">>
cough == <<"c", "o", "u", "g", "h">>
couch == <<"c", "o", "u", "c", "h">>
chew == <<"c", "h", "e", "w">>
chewing == <<"c", "h", "e", "w", "i", "n", "g">>
sweat == <<"s", "w", "e", "a", "t">>
sweating == <<"s", "w", "e", "a", "t", "i", "n", "g">>
blink == <<"b", "l", "i", "n", "k">>
eye_blink == <<"e", "y", "e", " ", "b", "l", "i", "n", "k">>
eye_movement == <<"e", "y", "e", " ", "m", "o", "v", "e", "m", "e", "n", "t">>
move == <<"m", "o", "v", "e">>
jerk == <<"j", "e", "r", "k">>
movement == <<"m", "o", "v", "e", "m", "e", "n", "t">>
seizure == <<"s", "e", "i", "z", "u", "r", "e">>
artifact == <<"a", "r", "t", "i", "f", "a", "c", "t">>

\* descriptions the event logs of the model are made of
PhoticOn5Hz == <<"P", "h", "o", "t", "i", "c", " ", "O", "n", " ", "5", "H", "z">>
HVOn == <<"H", "V", " ", "-", " ", "O", "n">>
PhoticOnBlink == <<"P", "h", "o", "t", "i", "c", " ", "O", "n", " ", "b", "l", "i", "n", "k">>
HVMoveOn == <<"H", "V", " ", "m", "o", "v", "e", " ", "O", "n">>
DescDrowsy == <<"D", "r", "o", "w", "s", "y">>
DescCouch == <<"C", "o", "u", "c", "h">>
DescCough == <<"c", "o", "u", "g", "h", "s">>
DescChew == <<"C", "h", "e", "w", "i", "n", "g">>
DescSweat == <<"s", "w", "e", "a", "t">>
DescBlinkEyeMovement == <<"b", "l", "i", "n", "k", " ", "e", "y", "e", " ", "m", "o", "v", "e", "m", "e", "n", "t">>
DescEyeMovement == <<"E", "y", "e", " ", "M", "o", "v", "e", "m", "e", "n", "t">>
DescMove == <<"M", "o", "v", "e">>
DescJerk == <<"j", "e", "r", "k">>
DescSeizure == <<"S", "e", "i", "z", "u", "r", "e">>
DescArtifact == <<"A", "r", "t", "i", "f", "a", "c", "t">>
DescMoveArtifact == <<"m", "o", "v", "e", " ", "a", "r", "t", "i", "f", "a", "c", "t">>
DescNote == <<"n", "o", "t", "e">>
DescEyesOpenLower == <<"e", "y", "e", "s", " ", "o", "p", "e", "n">>

SpanDescs == {EyesOpen, EyesClosed, Paused, PhoticOn5Hz, PhoticOff, HVOn, HVOff}

MarkerDescs ==
    {PhoticOnBlink, HVMoveOn, DescDrowsy, DescCouch, DescCough, DescChew, DescSweat,
     DescBlinkEyeMovement, DescEyeMovement, DescMove, DescJerk, DescSeizure,
     DescArtifact, DescMoveArtifact, DescNote, DescEyesOpenLower}

-----------------------------------------------------------------------------
(* Inputs *)

\* the sequences over S of length at most n
SeqsUpTo(S, n) == UNION {[1..k -> S] : k \in 0..n}

SampleRates == {2}

-----------------------------------------------------------------------------
(* Times: onset / sfreq and offset - onset, as exact quotients *)

Div(n, r) == <<n, r>>
Sub(a, b) == <<a[1] * b[2] - b[1] * a[2], a[2] * b[2]>>
Zero == <<0, 1>>
RatEq(a, b) == a[1] * b[2] = b[1] * a[2]
RatNonNeg(a) == a[1] * a[2] >= 0

-----------------------------------------------------------------------------
(* parse_events *)

\* the local variable `offset`: unbound until a closing marker was found
Unbound == [bound |-> FALSE, val |-> Zero]
Bound(v) == [bound |-> TRUE, val |-> v]

\* OrderedByOnset with `> 0` for `>= 0`
OrderedByOnset_m(ev) ==
    \A k \in 2..Len(ev) : ev[k].onset - ev[k - 1].onset > 0

\* events["onset"].diff().dropna() >= 0).all()
OrderedByOnset(ev) ==
    \A k \in 2..Len(ev) : ev[k].onset - ev[k - 1].onset >= 0

\* FindOffset without the `break`: the last closing marker wins
FindOffset_m(ev, r, i, closers, offset) ==
    LET js == {j \in (i + 1)..Len(ev) : ev[j].description \in closers}
    IN  IF js = {} THEN offset
        ELSE Bound(Div(ev[CHOOSE j \in js : \A k \in js : j >= k].onset, r))

\* for j in range(i + 1, len(events)): if description in closers: offset = ...; break
\* (i is the 1-based position of the opening event; offset keeps its value
\* when no j matches)
FindOffset(ev, r, i, closers, offset) ==
    LET js == {j \in (i + 1)..Len(ev) : ev[j].description \in closers}
    IN  IF js = {} THEN offset
        ELSE Bound(Div(ev[CHOOSE j \in js : \A k \in js : j <= k].onset, r))

Emit(st, onset, duration, description) ==
    [st EXCEPT !.onsets = Append(@, onset),
               !.durations = Append(@, duration),
               !.descriptions = Append(@, description)]

\* one span branch: the onset, the search of the offset, then the three appends;
\* reading an unbound `offset` raises UnboundLocalError
SpanBranch(ev, r, i, st, closers) ==
    LET onset == Div(ev[i].onset, r)
        offset == FindOffset(ev, r, i, closers, st.offset)
    IN  IF ~offset.bound
        THEN [st EXCEPT !.raised = "UnboundLocalError"]
        ELSE Emit([st EXCEPT !.offset = offset], onset,
                  Sub(offset.val, onset), ev[i].description)

\* one pure-marker branch
MarkerBranch(ev, r, i, st, label) == Emit(st, Div(ev[i].onset, r), Zero, label)

\* LoopBody with the "move" branch ahead of the "eye movement" branch
LoopBody_m(ev, r, i, st) ==
    LET d == ev[i].description
        low == Lower(d)
    IN  IF d \in {EyesOpen, EyesClosed}
          THEN SpanBranch(ev, r, i, st, {EyesOpen, EyesClosed, Paused})
        ELSE IF StartsWith(d, PhoticOn)
          THEN SpanBranch(ev, r, i, st, {PhoticOff, Paused})
        ELSE IF StartsWith(d, HV) /\ EndsWith(d, On)
          THEN SpanBranch(ev, r, i, st, {HVOff, Paused})
        ELSE IF Contains(low, drowsy) THEN MarkerBranch(ev, r, i, st, drowsy)
        ELSE IF Contains(low, cough) \/ Contains(low, couch)
          THEN MarkerBranch(ev, r, i, st, cough)
        ELSE IF Contains(low, chew) THEN MarkerBranch(ev, r, i, st, chewing)
        ELSE IF Contains(low, sweat) THEN MarkerBranch(ev, r, i, st, sweating)
        ELSE IF Contains(low, blink) THEN MarkerBranch(ev, r, i, st, eye_blink)
        ELSE IF Contains(low, move) \/ Contains(low, jerk)
          THEN MarkerBranch(ev, r, i, st, movement)
        ELSE IF Contains(low, eye_movement)
          THEN MarkerBranch(ev, r, i, st, eye_movement)
        ELSE IF Contains(low, seizure) THEN MarkerBranch(ev, r, i, st, seizure)
        ELSE IF Contains(low, artifact) THEN MarkerBranch(ev, r, i, st, artifact)
        ELSE st

\* the body of `for i, event in events.iterrows()`: the if/elif chain
LoopBody(ev, r, i, st) ==
    LET d == ev[i].description
        low == Lower(d)
    IN  IF d \in {EyesOpen, EyesClosed}
          THEN SpanBranch(ev, r, i, st, {EyesOpen, EyesClosed, Paused})
        ELSE IF StartsWith(d, PhoticOn)
          THEN SpanBranch(ev, r, i, st, {PhoticOff, Paused})
        ELSE IF StartsWith(d, HV) /\ EndsWith(d, On)
          THEN SpanBranch(ev, r, i, st, {HVOff, Paused})
        ELSE IF Contains(low, drowsy) THEN MarkerBranch(ev, r, i, st, drowsy)
        ELSE IF Contains(low, cough) \/ Contains(low, couch)
          THEN MarkerBranch(ev, r, i, st, cough)
        ELSE IF Contains(low, chew) THEN MarkerBranch(ev, r, i, st, chewing)
        ELSE IF Contains(low, sweat) THEN MarkerBranch(ev, r, i, st, sweating)
        ELSE IF Contains(low, blink) THEN MarkerBranch(ev, r, i, st, eye_blink)
        ELSE IF Contains(low, eye_movement)
          THEN MarkerBranch(ev, r, i, st, eye_movement)
        ELSE IF Contains(low, move) \/ Contains(low, jerk)
          THEN MarkerBranch(ev, r, i, st, movement)
        ELSE IF Contains(low, seizure) THEN MarkerBranch(ev, r, i, st, seizure)
        ELSE IF Contains(low, artifact) THEN MarkerBranch(ev, r, i, st, artifact)
        ELSE st

RECURSIVE Loop(_, _, _, _)
Loop(ev, r, i, st) ==
    IF i > Len(ev) \/ st.raised # "none" THEN st
    ELSE Loop(ev, r, i + 1, LoopBody(ev, r, i, st))

NoIntervals(raised) ==
    [raised |-> raised, onsets |-> <<>>, durations |-> <<>>, descriptions |-> <<>>]

\* parse_events(events, sfreq): the three lists, or the exception raised
parse_events(ev, r) ==
    IF ~OrderedByOnset(ev) THEN NoIntervals("AssertionError")
    ELSE LET st == Loop(ev, r, 1, [raised |-> "none", offset |-> Unbound,
                                   onsets |-> <<>>, durations |-> <<>>,
                                   descriptions |-> <<>>])
         IN  IF st.raised # "none" THEN NoIntervals(st.raised)
             ELSE [raised |-> "none", onsets |-> st.onsets,
                   durations |-> st.durations, descriptions |-> st.descriptions]

-----------------------------------------------------------------------------
(* Label derivation *)

LblNormal == <<"n", "o", "r", "m", "a", "l">>
LblAbnormal == <<"a", "b", "n", "o", "r", "m", "a", "l">>
LblMci == <<"m", "c", "i">>
LblDementia == <<"d", "e", "m", "e", "n", "t", "i", "a">>
\* Python's None, as a value no text equals
None == <<"None">>

\* a nullable boolean of the table: True, False or missing (pd.NA)
Tri == {"True", "False", "NA"}

\* pd.notna(x) and x
IsTrue(x) == x # "NA" /\ x = "True"

\* x if pd.notna(x) else False
OrFalse(x) == IF x # "NA" THEN x = "True" ELSE FALSE

Flags == {"normal", "mci", "dementia", "ad", "vd", "ad_vd_mixed", "ftd",
          "parkinson_dementia"}

determine_dementia_type(r) ==
    IF IsTrue(r.ad) THEN "ad"
    ELSE IF IsTrue(r.vd) THEN "vd"
    ELSE IF IsTrue(r.ad_vd_mixed) THEN "ad_vd_mixed"
    ELSE IF IsTrue(r.ftd) THEN "ftd"
    ELSE IF IsTrue(r.parkinson_dementia) THEN "parkinson_dementia"
    ELSE "None"

Returned(v) == [raised |-> FALSE, value |-> v]
Raised == [raised |-> TRUE, value |-> None]

\* determine_dementia_label whose mci branch asserts `not normal` only
determine_dementia_label_m(r) ==
    LET n == OrFalse(r.normal)
        m == OrFalse(r.mci)
        d == OrFalse(r.dementia)
    IN  IF n THEN (IF ~m /\ ~d THEN Returned(LblNormal) ELSE Raised)
        ELSE IF m THEN (IF ~n THEN Returned(LblMci) ELSE Raised)
        ELSE IF d THEN (IF ~n /\ ~m THEN Returned(LblDementia) ELSE Raised)
        ELSE Returned(None)

\* the value returned, or the AssertionError of a failed assert
determine_dementia_label(r) ==
    LET n == OrFalse(r.normal)
        m == OrFalse(r.mci)
        d == OrFalse(r.dementia)
    IN  IF n THEN (IF ~m /\ ~d THEN Returned(LblNormal) ELSE Raised)
        ELSE IF m THEN (IF ~n /\ ~d THEN Returned(LblMci) ELSE Raised)
        ELSE IF d THEN (IF ~n /\ ~m THEN Returned(LblDementia) ELSE Raised)
        ELSE Returned(None)

\* normality_label that takes a missing flag for a true one
normality_label_m(x) == IF x # "False" THEN LblNormal ELSE LblAbnormal

\* lambda x: 'normal' if (pd.notna(x) and x) else 'abnormal'
normality_label(x) == IF IsTrue(x) THEN LblNormal ELSE LblAbnormal

-----------------------------------------------------------------------------
(* Idle values of the variables a specification does not use *)

NoRow == [f \in Flags |-> "NA"]
NoLabels == [stage |-> "input", dementia_type |-> "None",
             dementia_label |-> None, normality_label |-> None]
NoResult == [applied |-> FALSE, raised |-> "none", onsets |-> <<>>,
             durations |-> <<>>, descriptions |-> <<>>]
NoSplit == [train_split |-> <<>>, validation_split |-> <<>>, test_split |-> <<>>]

LabelIdle == row = NoRow /\ labels = NoLabels
EventIdle == events = <<>> /\ sfreq = 1 /\ result = NoResult
RunIdle ==
    /\ pc = "idle" /\ participants_tsv = <<>>
    /\ dementia_split = NoSplit /\ dementia_split_no_overlap = NoSplit
    /\ abnormal_split = NoSplit /\ abnormal_split_no_overlap = NoSplit
    /\ idx = 0 /\ errors = <<>> /\ rawdata = <<>> /\ tsv_written = <<>>
    /\ summary = <<>>

-----------------------------------------------------------------------------
(* The label derivation applied to one row of the table *)

InitLabel ==
    /\ row \in [Flags -> Tri]
    /\ labels = NoLabels
    /\ EventIdle /\ RunIdle

\* participants_tsv.apply(...) of lines 233-235, on one row
DeriveLabels ==
    /\ labels.stage = "input"
    /\ LET t == determine_dementia_type(row)
           l == determine_dementia_label(row)
       IN  labels' = IF l.raised
                     THEN [stage |-> "raised", dementia_type |-> t,
                           dementia_label |-> None, normality_label |-> None]
                     ELSE [stage |-> "derived", dementia_type |-> t,
                           dementia_label |-> l.value,
                           normality_label |-> normality_label(row.normal)]
    /\ UNCHANGED <<row, eventVars, runVars>>

NextLabel == DeriveLabels

SpecLabel == InitLabel /\ [][NextLabel]_vars

-----------------------------------------------------------------------------
(* parse_events applied to one event log *)

Event == [onset : 0..MaxOnset, description : SpanDescs]
MarkerEvent == [onset : 0..MaxOnset, description : MarkerDescs]

Logs == SeqsUpTo(Event, MaxLen) \cup SeqsUpTo(MarkerEvent, MaxMarkerLen)

InitEvents ==
    /\ events \in Logs
    /\ sfreq \in SampleRates
    /\ result = NoResult
    /\ LabelIdle /\ RunIdle

\* onsets, durations, descriptions = parse_events(events, sfreq)
ParseEvents ==
    /\ ~result.applied
    /\ LET res == parse_events(events, sfreq)
       IN  result' = [applied |-> TRUE, raised |-> res.raised,
                      onsets |-> res.onsets, durations |-> res.durations,
                      descriptions |-> res.descriptions]
    /\ UNCHANGED <<events, sfreq, labelVars, runVars>>

NextEvents == ParseEvents

SpecEvents == InitEvents /\ [][NextEvents]_vars

-----------------------------------------------------------------------------
(* convert_caueeg_to_bids: the conversion run *)

ClassNormal == <<"N", "o", "r", "m", "a", "l">>
ClassAbnormal == <<"A", "b", "n", "o", "r", "m", "a", "l">>
ClassNames == {ClassNormal, ClassAbnormal}

\* the participant ids of the table, in table order
SubjectIds == <<"s1", "s2">>
\* the serials an entry of a split file may carry
Serials == {"s1", "s2"}

MkRow(n, m, d) ==
    [normal |-> n, mci |-> m, dementia |-> d, ad |-> d, vd |-> "NA",
     ad_vd_mixed |-> "NA", ftd |-> "False", parkinson_dementia |-> "NA"]

\* rows of annotation.xlsx: a normal subject, one with mci, one without any
\* diagnosis, and one with two diagnoses
SourceRows ==
    {MkRow("True", "NA", "False"), MkRow("False", "True", "NA"),
     MkRow("NA", "NA", "NA"), MkRow("True", "True", "False")}

\* a column that was not assigned yet
Unset == <<"unset">>

\* one row of participants_tsv after read_excel and the rename of `serial`
LoadedRow(id, r) ==
    [participant_id |-> id, normal |-> r.normal, mci |-> r.mci,
     dementia |-> r.dementia, ad |-> r.ad, vd |-> r.vd,
     ad_vd_mixed |-> r.ad_vd_mixed, ftd |-> r.ftd,
     parkinson_dementia |-> r.parkinson_dementia,
     dementia_type |-> "unset", dementia_label |-> Unset,
     normality_label |-> Unset, dementia_split |-> "unset",
     dementia_split_no_overlap |-> "unset", normality_split |-> "unset",
     normality_split_no_overlap |-> "unset"]

Tables ==
    UNION {{[k \in 1..n |-> LoadedRow(SubjectIds[k], f[k])] : f \in [1..n -> SourceRows]}
           : n \in 1..Len(SubjectIds)}

Entry == [serial : Serials, class_name : ClassNames]

SplitSize(d) == Len(d.train_split) + Len(d.validation_split) + Len(d.test_split)

\* the split files of at most n entries
SplitDefs(n) ==
    {d \in [train_split : SeqsUpTo(Entry, n), validation_split : SeqsUpTo(Entry, n),
            test_split : SeqsUpTo(Entry, n)] : SplitSize(d) <= n}

\* entries of the split files read so far
Loaded ==
    SplitSize(dementia_split) + SplitSize(dementia_split_no_overlap)
      + SplitSize(abnormal_split) + SplitSize(abnormal_split_no_overlap)

SerialsOf(list) == {list[k].serial : k \in 1..Len(list)}

\* {e["serial"]: "train" ...}, .update(... "val" ...), .update(... "test" ...)
IdToSplit(d) ==
    [s \in SerialsOf(d.test_split) |-> "test"]
      @@ [s \in SerialsOf(d.validation_split) |-> "val"]
      @@ [s \in SerialsOf(d.train_split) |-> "train"]

\* Series.map(mapping): the value under the key, NaN for a key the mapping lacks
MapValue(mapping, key) == IF key \in DOMAIN mapping THEN mapping[key] ELSE "NaN"

\* participants_tsv[column] = participants_tsv["participant_id"].map(mapping)
AssignColumn(table, column, mapping) ==
    [k \in 1..Len(table) |->
        [table[k] EXCEPT ![column] = MapValue(mapping, table[k].participant_id)]]

\* one element of the list inside `assert all([...])`: "ok", "mismatch", or
\* "IndexError" when no row of the table has the entry's serial
EntryCheck(table, e, column) ==
    LET rows == {k \in 1..Len(table) : table[k].participant_id = e.serial}
    IN  IF rows = {} THEN "IndexError"
        ELSE IF Lower(e.class_name) = table[CHOOSE k \in rows : \A m \in rows : k <= m][column]
             THEN "ok" ELSE "mismatch"

\* assert all([... for e in list]) passes
ListConsistent(table, list, column) ==
    \A k \in 1..Len(list) : EntryCheck(table, list[k], column) = "ok"

\* AssertionsPass without the three assertions on dementia_split
AssertionsPass_m(table) ==
    /\ ListConsistent(table, abnormal_split.train_split, "normality_label")
    /\ ListConsistent(table, abnormal_split.validation_split, "normality_label")
    /\ ListConsistent(table, abnormal_split.test_split, "normality_label")

\* the six assertions of lines 281-309
AssertionsPass(table) ==
    /\ ListConsistent(table, abnormal_split.train_split, "normality_label")
    /\ ListConsistent(table, abnormal_split.validation_split, "normality_label")
    /\ ListConsistent(table, abnormal_split.test_split, "normality_label")
    /\ ListConsistent(table, dementia_split.train_split, "dementia_label")
    /\ ListConsistent(table, dementia_split.validation_split, "dementia_label")
    /\ ListConsistent(table, dementia_split.test_split, "dementia_label")

\* the event logs of the recordings: a well-formed one, one out of order, one
\* whose first span never closes, one whose last span never closes
SourceLogs ==
    {<<[onset |-> 0, description |-> EyesOpen], [onset |-> 1, description |-> EyesClosed],
       [onset |-> 2, description |-> Paused]>>,
     <<[onset |-> 1, description |-> EyesOpen], [onset |-> 0, description |-> Paused]>>,
     <<[onset |-> 0, description |-> PhoticOn5Hz], [onset |-> 1, description |-> DescMove]>>,
     <<[onset |-> 0, description |-> EyesOpen], [onset |-> 2, description |-> EyesClosed]>>}

\* the body of the try block for one row: the exception it ends with, or "none".
\* read_ok: read_raw_edf and the channel and montage calls succeed;
\* write_ok: mne.Annotations, set_annotations and write_raw_bids succeed
TryBody(read_ok, log, r, write_ok) ==
    IF ~read_ok THEN "IOError"
    ELSE IF parse_events(log, r).raised # "none" THEN parse_events(log, r).raised
    ELSE IF ~write_ok THEN "IOError"
    ELSE "none"

\* HandleException without the append
HandleException_m(errs, id, e) == errs

\* except Exception as e: errors.append(f"Error processing {id}: {e}")
HandleException(errs, id, e) == Append(errs, [participant_id |-> id, error |-> e])

Init ==
    /\ pc = "labels"
    /\ participants_tsv \in Tables
    /\ dementia_split = NoSplit /\ dementia_split_no_overlap = NoSplit
    /\ abnormal_split = NoSplit /\ abnormal_split_no_overlap = NoSplit
    /\ idx = 0 /\ errors = <<>> /\ rawdata = <<>> /\ tsv_written = <<>>
    /\ summary = <<>>
    /\ LabelIdle /\ EventIdle

\* lines 233-235: the three derived label columns; a failed assert of
\* determine_dementia_label ends the run
DeriveColumns ==
    /\ pc = "labels"
    /\ LET typed == [k \in 1..Len(participants_tsv) |->
                       [participants_tsv[k] EXCEPT
                          !.dementia_type = determine_dementia_type(participants_tsv[k])]]
       IN  IF \E k \in 1..Len(typed) : determine_dementia_label(typed[k]).raised
           THEN /\ participants_tsv' = typed
                /\ pc' = "halted"
           ELSE /\ participants_tsv' =
                     [k \in 1..Len(typed) |->
                        [typed[k] EXCEPT
                           !.dementia_label = determine_dementia_label(typed[k]).value,
                           !.normality_label = normality_label(typed[k].normal)]]
                /\ pc' = "dementia"
    /\ UNCHANGED <<dementia_split, dementia_split_no_overlap, abnormal_split,
                   abnormal_split_no_overlap, idx, errors, rawdata, tsv_written,
                   summary, labelVars, eventVars>>

\* lines 238-245
LoadDementiaSplit ==
    /\ pc = "dementia"
    /\ \E d \in SplitDefs(MaxEntries - Loaded) :
          /\ dementia_split' = d
          /\ participants_tsv' = AssignColumn(participants_tsv, "dementia_split", IdToSplit(d))
    /\ pc' = "dementia_no_overlap"
    /\ UNCHANGED <<dementia_split_no_overlap, abnormal_split, abnormal_split_no_overlap,
                   idx, errors, rawdata, tsv_written, summary, labelVars, eventVars>>

\* lines 249-256: the column is mapped through the loaded file itself
LoadDementiaSplitNoOverlap ==
    /\ pc = "dementia_no_overlap"
    /\ \E d \in SplitDefs(MaxEntries - Loaded) :
          /\ dementia_split_no_overlap' = d
          /\ participants_tsv' =
                AssignColumn(participants_tsv, "dementia_split_no_overlap", d)
    /\ pc' = "abnormal"
    /\ UNCHANGED <<dementia_split, abnormal_split, abnormal_split_no_overlap,
                   idx, errors, rawdata, tsv_written, summary, labelVars, eventVars>>

\* lines 260-267
LoadAbnormalSplit ==
    /\ pc = "abnormal"
    /\ \E d \in SplitDefs(MaxEntries - Loaded) :
          /\ abnormal_split' = d
          /\ participants_tsv' = AssignColumn(participants_tsv, "normality_split", IdToSplit(d))
    /\ pc' = "abnormal_no_overlap"
    /\ UNCHANGED <<dementia_split, dementia_split_no_overlap, abnormal_split_no_overlap,
                   idx, errors, rawdata, tsv_written, summary, labelVars, eventVars>>

\* lines 271-278
LoadAbnormalSplitNoOverlap ==
    /\ pc = "abnormal_no_overlap"
    /\ \E d \in SplitDefs(MaxEntries - Loaded) :
          /\ abnormal_split_no_overlap' = d
          /\ participants_tsv' =
                AssignColumn(participants_tsv, "normality_split_no_overlap", IdToSplit(d))
    /\ pc' = "validate"
    /\ UNCHANGED <<dementia_split, dementia_split_no_overlap, abnormal_split,
                   idx, errors, rawdata, tsv_written, summary, labelVars, eventVars>>

\* lines 281-311: the assertions; a failed one (or an IndexError) ends the run
Validate ==
    /\ pc = "validate"
    /\ IF AssertionsPass(participants_tsv)
       THEN pc' = "loop" /\ idx' = 1
       ELSE pc' = "halted" /\ idx' = idx
    /\ UNCHANGED <<participants_tsv, dementia_split, dementia_split_no_overlap,
                   abnormal_split, abnormal_split_no_overlap, errors, rawdata,
                   tsv_written, summary, labelVars, eventVars>>

\* lines 313-354: one iteration of the loop over the rows
ProcessRecording ==
    /\ pc = "loop"
    /\ idx <= Len(participants_tsv)
    /\ \E read_ok \in BOOLEAN, log \in SourceLogs, r \in SampleRates, write_ok \in BOOLEAN :
          LET id == participants_tsv[idx].participant_id
              e == TryBody(read_ok, log, r, write_ok)
          IN  IF e = "none"
              THEN /\ rawdata' = Append(rawdata, id)
                   /\ errors' = errors
              ELSE /\ errors' = HandleException(errors, id, e)
                   /\ rawdata' = rawdata
    /\ idx' = idx + 1
    /\ UNCHANGED <<pc, participants_tsv, dementia_split, dementia_split_no_overlap,
                   abnormal_split, abnormal_split_no_overlap, tsv_written, summary,
                   labelVars, eventVars>>

\* lines 357-364, after the loop: participants_tsv.to_csv(...) and the summary
Finish ==
    /\ pc = "loop"
    /\ idx > Len(participants_tsv)
    /\ tsv_written' = Append(tsv_written, participants_tsv)
    /\ summary' = <<[succeeded |-> Len(participants_tsv) - Len(errors),
                     attempted |-> Len(participants_tsv),
                     errors |-> errors]>>
    /\ pc' = "done"
    /\ UNCHANGED <<participants_tsv, dementia_split, dementia_split_no_overlap,
                   abnormal_split, abnormal_split_no_overlap, idx, errors, rawdata,
                   labelVars, eventVars>>

Next ==
    \/ DeriveColumns
    \/ LoadDementiaSplit
    \/ LoadDementiaSplitNoOverlap
    \/ LoadAbnormalSplit
    \/ LoadAbnormalSplitNoOverlap
    \/ Validate
    \/ ProcessRecording
    \/ Finish

Spec == Init /\ [][Next]_vars

-----------------------------------------------------------------------------
(* Properties of parse_events *)

\* the rules of the segmentation, numbered in their order of priority
RuleMatches(k, d) ==
    CASE k = 1 -> d \in {EyesOpen, EyesClosed}
      [] k = 2 -> StartsWith(d, PhoticOn)
      [] k = 3 -> StartsWith(d, HV) /\ EndsWith(d, On)
      [] k = 4 -> Contains(Lower(d), drowsy)
      [] k = 5 -> Contains(Lower(d), cough) \/ Contains(Lower(d), couch)
      [] k = 6 -> Contains(Lower(d), chew)
      [] k = 7 -> Contains(Lower(d), sweat)
      [] k = 8 -> Contains(Lower(d), blink)
      [] k = 9 -> Contains(Lower(d), eye_movement)
      [] k = 10 -> Contains(Lower(d), move) \/ Contains(Lower(d), jerk)
      [] k = 11 -> Contains(Lower(d), seizure)
      [] k = 12 -> Contains(Lower(d), artifact)

CanonicalLabel ==
    <<None, None, None, drowsy, cough, chewing, sweating, eye_blink,
      eye_movement, movement, seizure, artifact>>

\* the first rule a description matches, 0 when it matches none
FirstRuleOf ==
    [d \in SpanDescs \cup MarkerDescs |->
        IF \E k \in 1..12 : RuleMatches(k, d)
        THEN CHOOSE k \in 1..12 :
                RuleMatches(k, d) /\ \A m \in 1..(k - 1) : ~RuleMatches(m, d)
        ELSE 0]

FirstRule(d) == FirstRuleOf[d]

RuleLabel(d) == IF FirstRule(d) <= 3 THEN d ELSE CanonicalLabel[FirstRule(d)]

IsOpening(d) == FirstRule(d) \in 1..3

ClosersOf(d) ==
    CASE FirstRule(d) = 1 -> {EyesOpen, EyesClosed, Paused}
      [] FirstRule(d) = 2 -> {PhoticOff, Paused}
      [] FirstRule(d) = 3 -> {HVOff, Paused}
      [] OTHER -> {}

ClosersAfter(ev, i) ==
    {j \in (i + 1)..Len(ev) : ev[j].description \in ClosersOf(ev[i].description)}

FirstCloser(ev, i) ==
    CHOOSE j \in ClosersAfter(ev, i) : \A k \in ClosersAfter(ev, i) : j <= k

\* the positions of the events that match a rule, in the order of the log
Matched(ev) ==
    SelectSeq([k \in 1..Len(ev) |-> k], LAMBDA k : FirstRule(ev[k].description) # 0)

\* the place in the output of the interval of the event at position i
PosOf(ev, i) == Cardinality({k \in 1..i : FirstRule(ev[k].description) # 0})

NonDecreasing(ev) ==
    \A i, j \in 1..Len(ev) : i < j => ev[i].onset <= ev[j].onset

HasDescent(ev) == \E k \in 1..(Len(ev) - 1) : ev[k + 1].onset < ev[k].onset

UnclosedOpening(ev) ==
    \E i \in 1..Len(ev) : IsOpening(ev[i].description) /\ ClosersAfter(ev, i) = {}

\* the interval of a span opening at position i that has a closing marker
SpanIntervalRight(ev, r, res, i) ==
    LET p == PosOf(ev, i)
    IN  /\ p <= Len(res.onsets)
        /\ res.onsets[p] = Div(ev[i].onset, r)
        /\ RatEq(res.durations[p], Div(ev[FirstCloser(ev, i)].onset - ev[i].onset, r))
        /\ RatNonNeg(res.durations[p])
        /\ res.descriptions[p] = ev[i].description

AllClosedSpansRight ==
    \A i \in 1..Len(events) :
        (IsOpening(events[i].description) /\ ClosersAfter(events, i) # {})
            => SpanIntervalRight(events, sfreq, result, i)

\* C1: on a log sorted by onset, a span opening with no qualifying closing
\* marker later in the log makes parse_events fail and return no intervals.
C1_UnresolvedSpanFails ==
    (result.applied /\ NonDecreasing(events) /\ UnclosedOpening(events))
        => (result.raised # "none" /\ result.onsets = <<>>)

\* C5 as stated: on every log sorted by onset, every span opening that has a
\* qualifying closing marker later in the log gets its interval.
C5_EveryClosedSpanEmitted ==
    (result.applied /\ NonDecreasing(events)) => AllClosedSpansRight

\* C5 amended: whenever parse_events returns, every span opening that has a
\* qualifying closing marker later in the log has exactly one interval, at its
\* place in the output, with onset = opening onset / sample rate, duration =
\* (onset of the first qualifying closing marker - opening onset) / sample rate
\* >= 0 and the opening's description as label; the output has one interval per
\* event that matches a rule; and [Eyes Open@t0, Eyes Closed@t1, Paused@t2]
\* yields exactly the two intervals of the example.
C5_ClosedSpansWhenReturned ==
    (result.applied /\ result.raised = "none") =>
        /\ AllClosedSpansRight
        /\ Len(result.onsets) = Len(Matched(events))
        /\ Len(result.durations) = Len(result.onsets)
        /\ Len(result.descriptions) = Len(result.onsets)
        /\ (Len(events) = 3 /\ events[1].description = EyesOpen
              /\ events[2].description = EyesClosed /\ events[3].description = Paused)
            => /\ result.onsets = <<Div(events[1].onset, sfreq), Div(events[2].onset, sfreq)>>
               /\ Len(result.durations) = 2
               /\ RatEq(result.durations[1], Div(events[2].onset - events[1].onset, sfreq))
               /\ RatEq(result.durations[2], Div(events[3].onset - events[2].onset, sfreq))
               /\ result.descriptions = <<EyesOpen, EyesClosed>>

C5_Witness ==
    /\ result.applied /\ result.raised = "none" /\ sfreq = 2
    /\ events = <<[onset |-> 0, description |-> EyesOpen],
                  [onset |-> 1, description |-> EyesClosed],
                  [onset |-> 2, description |-> Paused]>>
    /\ Len(result.onsets) = 2

\* C6: when parse_events returns, the output is, in the order of the log, one
\* interval per event that matches a rule and none for the others: its label is
\* the label of the first rule the event matches, its onset the event's onset
\* over the sample rate, its duration 0 for a pure marker; the output is never
\* longer than the log; a sorted log without span openings never fails.
C6_FirstMatchingRule ==
    result.applied =>
        /\ (NonDecreasing(events) /\ \A i \in 1..Len(events) : ~IsOpening(events[i].description))
              => result.raised = "none"
        /\ Len(result.descriptions) <= Len(events)
        /\ result.raised = "none" =>
              LET m == Matched(events)
              IN  /\ Len(result.descriptions) = Len(m)
                  /\ Len(result.onsets) = Len(m)
                  /\ Len(result.durations) = Len(m)
                  /\ \A k \in 1..Len(m) :
                        LET e == events[m[k]]
                        IN  /\ result.descriptions[k] = RuleLabel(e.description)
                            /\ result.onsets[k] = Div(e.onset, sfreq)
                            /\ FirstRule(e.description) > 3 => result.durations[k] = <<0, 1>>

C6_Witness ==
    /\ result.applied /\ result.raised = "none"
    /\ Len(events) = 1 /\ events[1].description = DescBlinkEyeMovement
    /\ result.descriptions = <<eye_blink>>

\* C9: parse_events raises the ordering error exactly when the log is not
\* non-decreasing in onset, and then returns no interval.
C9_OrderingErrorIffUnsorted ==
    result.applied =>
        /\ NonDecreasing(events) => result.raised # "AssertionError"
        /\ HasDescent(events) => (result.raised = "AssertionError" /\ result.onsets = <<>>)
        /\ NonDecreasing(events) \/ HasDescent(events)

C9_Witness ==
    /\ result.applied /\ result.raised = "AssertionError"
    /\ Len(events) = 3 /\ events[1].onset = events[2].onset
    /\ events[3].onset < events[2].onset

-----------------------------------------------------------------------------
(* Properties of the label derivation *)

LabelOfFlag == [normal |-> LblNormal, mci |-> LblMci, dementia |-> LblDementia]

TrueFlags(r) == {f \in {"normal", "mci", "dementia"} : r[f] = "True"}

\* C4: determine_dementia_label raises when two or more of normal, mci and
\* dementia are true, returns the name of the single true one when exactly one
\* is true, and returns null when none is true (missing counts as false).
C4_DementiaLabel ==
    labels.stage # "input" =>
        /\ Cardinality(TrueFlags(row)) >= 2 => labels.stage = "raised"
        /\ Cardinality(TrueFlags(row)) = 1 =>
              /\ labels.stage = "derived"
              /\ labels.dementia_label = LabelOfFlag[CHOOSE f \in TrueFlags(row) : TRUE]
        /\ TrueFlags(row) = {} =>
              (labels.stage = "derived" /\ labels.dementia_label = None)

C4_Witness ==
    /\ labels.stage = "raised"
    /\ row.normal = "NA" /\ row.mci = "True" /\ row.dementia = "True"

\* C10: for every row whose dementia_label is derived without an error,
\* normality_label is "normal" exactly when dementia_label is "normal", and
\* "abnormal" when dementia_label is "mci", "dementia" or null.
C10_NormalityAgreesWithDementiaLabel ==
    labels.stage = "derived" =>
        /\ labels.normality_label = LblNormal <=> labels.dementia_label = LblNormal
        /\ labels.dementia_label \in {LblMci, LblDementia, None}
              => labels.normality_label = LblAbnormal
        /\ labels.normality_label \in {LblNormal, LblAbnormal}

C10_Witness ==
    /\ labels.stage = "derived" /\ row.normal = "NA"
    /\ labels.dementia_label = None /\ labels.normality_label = LblAbnormal

-----------------------------------------------------------------------------
(* Properties of the conversion run *)

ListNames == {"train_split", "validation_split", "test_split"}
SplitName == [train_split |-> "train", validation_split |-> "val", test_split |-> "test"]

\* the lists of d in which the id appears
ListsWith(d, id) == {n \in ListNames : \E k \in 1..Len(d[n]) : d[n][k].serial = id}

FieldFollows(table, field, d) ==
    \A k \in 1..Len(table) :
        LET ls == ListsWith(d, table[k].participant_id)
        IN  /\ Cardinality(ls) = 1 => table[k][field] = SplitName[CHOOSE n \in ls : TRUE]
            /\ ls = {} => table[k][field] = "NaN"

SplitsAssigned == pc \in {"validate", "loop", "done"}

\* C2: each of the four split fields of a subject is the name of the one list
\* of its split definition that holds the subject's id, and null when no list
\* holds it.
C2_SplitFieldsFollowDefinitions ==
    SplitsAssigned =>
        /\ FieldFollows(participants_tsv, "dementia_split", dementia_split)
        /\ FieldFollows(participants_tsv, "dementia_split_no_overlap",
                        dementia_split_no_overlap)
        /\ FieldFollows(participants_tsv, "normality_split", abnormal_split)
        /\ FieldFollows(participants_tsv, "normality_split_no_overlap",
                        abnormal_split_no_overlap)

\* the entry's class name is, case-insensitively, the subject's label
EntryAgrees(table, e, column) ==
    \E k \in 1..Len(table) :
        table[k].participant_id = e.serial /\ Lower(e.class_name) = table[k][column]

DefinitionAgrees(table, d, column) ==
    \A n \in ListNames : \A k \in 1..Len(d[n]) : EntryAgrees(table, d[n][k], column)

PastValidation == pc \in {"loop", "done"}

\* C3: the run proceeds past validation only if every entry of every list of
\* each of the four split definitions matches the subject's derived label.
C3_EveryDefinitionValidated ==
    PastValidation =>
        /\ DefinitionAgrees(participants_tsv, abnormal_split, "normality_label")
        /\ DefinitionAgrees(participants_tsv, abnormal_split_no_overlap, "normality_label")
        /\ DefinitionAgrees(participants_tsv, dementia_split, "dementia_label")
        /\ DefinitionAgrees(participants_tsv, dementia_split_no_overlap, "dementia_label")

\* the place of a participant id in the table
RowOf(id) == CHOOSE k \in 1..Len(participants_tsv) : participants_tsv[k].participant_id = id

LabelsDerived(table) ==
    \A k \in 1..Len(table) :
        /\ Cardinality(TrueFlags(table[k])) <= 1
        /\ table[k].dementia_type # "unset"
        /\ table[k].dementia_label # Unset
        /\ table[k].normality_label # Unset

SplitColumnsAssigned(table) ==
    \A k \in 1..Len(table) :
        /\ table[k].dementia_split # "unset"
        /\ table[k].dementia_split_no_overlap # "unset"
        /\ table[k].normality_split # "unset"
        /\ table[k].normality_split_no_overlap # "unset"

====
